---- MODULE Spec2Model ----
(***************************************************************************)
(* Model of the book catalogue of app.py: one SQLite table `books` behind  *)
(* init_db, add_book, update_read_status, load_books and get_totals, and   *)
(* the Streamlit script that calls them.  Every session runs the script in *)
(* a thread of its own, and every statement or executemany the script has  *)
(* executed is one transaction of SQLite: the sessions interleave between  *)
(* them.                                                                   *)
(*                                                                         *)
(* Text is a sequence of Unicode code points.  is_read is the INTEGER the  *)
(* column holds (0 or 1).  A dict returned by load_books is a record whose *)
(* Cyrillic keys are transliterated: Zaglavie, Avtor, Zhanr, Godina,       *)
(* Prochetena.  An int a caller passes (the year of add_book, an id of     *)
(* update_read_status) is a Python int, of any size: the record            *)
(* [sign, digits] CPython holds; the INTEGER of a column is an integer.    *)
(***************************************************************************)
EXTENDS Integers, Sequences, FiniteSets

VARIABLES
    table_exists,   \* CREATE TABLE IF NOT EXISTS books has run
    books,          \* the rows of table books
    sqlite_sequence,\* AUTOINCREMENT: the largest rowid ever assigned
    script,         \* per session: [pc, books], where its run of the script
                    \* stands and the list load_books gave it
    last            \* the last call: [op, args, out, raises], raises the
                    \* exception that ended it ("" when it returned)

vars == <<table_exists, books, sqlite_sequence, script, last>>

----------------------------------------------------------------------------
(* Bounds of the model *)

\* largest table the list sweep draws
MaxBooks == 6
\* rows add_book adds to the sample rows
MaxAdds == 2
\* largest store the get_totals sweep draws
MaxTotal == 50

\* the sessions that run the script at the same time: two browser tabs
Sessions == {"A", "B"}

----------------------------------------------------------------------------
(* Text *)

\* str.strip() with no argument removes the characters str.isspace() accepts
WhitespaceChars ==
    {9, 10, 11, 12, 13, 28, 29, 30, 31, 32, 133, 160, 5760}
        \cup (8192..8202) \cup {8232, 8233, 8239, 8287, 12288}

\* str.strip(): s without its leading and trailing whitespace
strip(s) ==
    IF \A i \in 1..Len(s) : s[i] \in WhitespaceChars THEN <<>>
    ELSE SubSeq(s, CHOOSE i \in 1..Len(s) :
                       /\ s[i] \notin WhitespaceChars
                       /\ \A k \in 1..(i - 1) : s[k] \in WhitespaceChars,
                   Len(s) + 1 - (CHOOSE n \in 1..Len(s) :
                       /\ s[Len(s) + 1 - n] \notin WhitespaceChars
                       /\ \A k \in 1..(n - 1) :
                              s[Len(s) + 1 - k] \in WhitespaceChars))

\* TRUE when text holds a surrogate (U+D800..U+DFFF): sqlite3 cannot encode it
\* as UTF-8, and execute raises UnicodeEncodeError when it binds the parameter
has_surrogate(s) == \E i \in 1..Len(s) : s[i] \in 55296..57343

\* the number of bytes of the UTF-8 encoding of s
utf8_len(s) ==
    Len(s) + Cardinality({i \in 1..Len(s) : s[i] >= 128})
           + Cardinality({i \in 1..Len(s) : s[i] >= 2048})
           + Cardinality({i \in 1..Len(s) : s[i] >= 65536})

\* SQLite's limit on the bytes of a LIKE pattern
SQLITE_MAX_LIKE_PATTERN_LENGTH == 50000

\* SQLite's LIKE wildcards: '%' any run of characters, '_' any one character
MatchAll == 37
MatchOne == 95

\* LIKE folds case for the ASCII letters only (no ICU extension is loaded)
sqlite3Tolower(c) == IF c \in 65..90 THEN c + 32 ELSE c

\* the text SQLite's functions read from a value: they take it as a C string,
\* which ends before the first U+0000
c_str(s) ==
    LET nul == {i \in 1..Len(s) : s[i] = 0}
    IN IF nul = {} THEN s
       ELSE SubSeq(s, 1, (CHOOSE i \in nul : \A k \in nul : i <= k) - 1)

\* the character SQLite's LIKE reads from UTF-8 text: U+FFFE and U+FFFF are
\* read as U+FFFD
sqlite3Utf8Read(c) == IF c \in {65534, 65535} THEN 65533 ELSE c

\* patternCompare of SQLite on two C strings, no ESCAPE clause.
\* m[<<i, k>>]: pattern from position i on matches str from position k on
patternCompare(pattern, str) ==
    LET m[ik \in (1..(Len(pattern) + 1)) \X (1..(Len(str) + 1))] ==
            LET i == ik[1]
                k == ik[2]
            IN IF i > Len(pattern) THEN k > Len(str)
               ELSE IF pattern[i] = MatchAll
                   THEN m[<<i + 1, k>>] \/ (k <= Len(str) /\ m[<<i, k + 1>>])
               ELSE IF k > Len(str) THEN FALSE
               ELSE IF pattern[i] = MatchOne THEN m[<<i + 1, k + 1>>]
               ELSE /\ sqlite3Tolower(sqlite3Utf8Read(pattern[i]))
                        = sqlite3Tolower(sqlite3Utf8Read(str[k]))
                    /\ m[<<i + 1, k + 1>>]
    IN m[<<1, 1>>]

\* the LIKE operator of SQLite: str LIKE pattern, as [raises, value].
\* A pattern of more bytes than the limit (all its bytes count, also those
\* after a U+0000) ends the statement with "LIKE or GLOB pattern too complex"
like(pattern, str) ==
    IF utf8_len(pattern) > SQLITE_MAX_LIKE_PATTERN_LENGTH
    THEN [raises |-> "sqlite3.OperationalError", value |-> FALSE]
    ELSE [raises |-> "",
          value |-> \E zPattern \in {c_str(pattern)}, zStr \in {c_str(str)} :
                       patternCompare(zPattern, zStr)]

\* BINARY collation: memcmp of the UTF-8 bytes, which orders text as its
\* code points do; TRUE when a sorts strictly before b
binary_less(a, b) ==
    \E k \in 1..Len(b) :
        /\ k - 1 <= Len(a)
        /\ \A i \in 1..(k - 1) : a[i] = b[i]
        /\ (k > Len(a) \/ a[k] < b[k])

----------------------------------------------------------------------------
(* Python ints *)

\* CPython holds an int as its sign (-1, 0 or 1) and the digits of its
\* magnitude in base 2^PyLong_SHIFT, the least significant first, the last
\* one not 0 (no digit for 0)
PyLong_SHIFT == 30

\* the Python int of an integer v of the model (at most two digits)
PyLong_FromLong(v) ==
    LET magnitude == IF v < 0 THEN -v ELSE v
    IN [sign |-> IF v < 0 THEN -1 ELSE IF v = 0 THEN 0 ELSE 1,
        digits |-> IF magnitude = 0 THEN <<>>
                   ELSE IF magnitude < 2^PyLong_SHIFT THEN <<magnitude>>
                   ELSE <<magnitude % 2^PyLong_SHIFT,
                          magnitude \div 2^PyLong_SHIFT>>]

\* TRUE when the Python int n is in -2^63..2^63-1, the range of an INTEGER of
\* SQLite: sqlite3 binds such an int, and raises OverflowError ("Python int
\* too large to convert to SQLite INTEGER") for any other.  2^63 has the
\* digits <<0, 0, 8>>
fits_int64(n) ==
    \/ Len(n.digits) <= 2
    \/ /\ Len(n.digits) = 3
       /\ \/ n.digits[3] < 8
          \/ n.sign = -1 /\ n.digits = <<0, 0, 8>>

\* the INTEGER sqlite3 binds for a Python int that fits
as_int64(n) ==
    LET value[k \in 0..Len(n.digits)] ==
            IF k = 0 THEN 0
            ELSE value[k - 1] + n.digits[k] * 2^(PyLong_SHIFT * (k - 1))
    IN n.sign * value[Len(n.digits)]

----------------------------------------------------------------------------
(* The table *)

\* the largest element of a set of naturals, 0 for the empty set
SetMax(S) == IF S = {} THEN 0 ELSE CHOOSE x \in S : \A y \in S : y <= x

\* insert, but the new row gets the largest rowid so far, not one more
insert_last_rowid(db, vals) ==
    LET largest == SetMax({r.id : r \in db.rows} \cup {db.seq})
        row == [id |-> IF largest = 0 THEN 1 ELSE largest, title |-> vals[1],
                author |-> vals[2], genre |-> vals[3], year |-> vals[4],
                is_read |-> vals[5]]
    IN [rows |-> db.rows \cup {row}, seq |-> row.id]

\* INSERT INTO books (title, author, genre, year, is_read) VALUES (?,?,?,?,?)
\* on a table [rows, seq]: INTEGER PRIMARY KEY AUTOINCREMENT assigns one more
\* than the largest rowid the table has ever held
insert(db, vals) ==
    LET largest == SetMax({r.id : r \in db.rows} \cup {db.seq})
        row == [id |-> largest + 1, title |-> vals[1], author |-> vals[2],
                genre |-> vals[3], year |-> vals[4], is_read |-> vals[5]]
    IN [rows |-> db.rows \cup {row}, seq |-> largest + 1]

\* executemany of the INSERT: one insert per element, in order
\* (each intermediate table is bound by a singleton set, so that it is
\* evaluated once)
executemany_insert(db, seq_of_vals) ==
    LET ins[k \in 0..Len(seq_of_vals)] ==
            IF k = 0 THEN db
            ELSE CHOOSE after \in
                    {insert(before, seq_of_vals[k]) : before \in {ins[k - 1]}} : TRUE
    IN ins[Len(seq_of_vals)]

\* the sample rows init_db seeds an empty table with
bulgarian_books == <<
    <<<<1055, 1086, 1076, 32, 1080, 1075, 1086, 1090, 1086>>,
      <<1048, 1074, 1072, 1085, 32, 1042, 1072, 1079, 1086, 1074>>,
      <<1050, 1083, 1072, 1089, 1080, 1082, 1072>>, 1894, 1>>,
    <<<<1058, 1102, 1090, 1102, 1085>>,
      <<1044, 1080, 1084, 1080, 1090, 1098, 1088, 32, 1044, 1080, 1084, 1086, 1074>>,
      <<1056, 1086, 1084, 1072, 1085>>, 1951, 0>>,
    <<<<1046, 1077, 1083, 1077, 1079, 1085, 1080, 1103, 1090, 32,
        1089, 1074, 1077, 1090, 1080, 1083, 1085, 1080, 1082>>,
      <<1044, 1080, 1084, 1080, 1090, 1098, 1088, 32, 1058, 1072, 1083, 1077, 1074>>,
      <<1048, 1089, 1090, 1086, 1088, 1080, 1095, 1077, 1089, 1082, 1080>>, 1952, 0>>,
    <<<<1041, 1072, 1081, 32, 1043, 1072, 1085, 1100, 1086>>,
      <<1040, 1083, 1077, 1082, 1086, 32, 1050, 1086, 1085, 1089, 1090, 1072,
        1085, 1090, 1080, 1085, 1086, 1074>>,
      <<1057, 1072, 1090, 1080, 1088, 1072>>, 1895, 1>>,
    <<<<1042, 1088, 1077, 1084, 1077, 32, 1088, 1072, 1079, 1076, 1077, 1083, 1085, 1086>>,
      <<1040, 1085, 1090, 1086, 1085, 32, 1044, 1086, 1085, 1095, 1077, 1074>>,
      <<1048, 1089, 1090, 1086, 1088, 1080, 1095, 1077, 1089, 1082, 1080>>, 1964, 0>>
  >>

\* the genre add_book stores for a blank one: "Неизвестен"
DefaultGenre == <<1053, 1077, 1080, 1079, 1074, 1077, 1089, 1090, 1077, 1085>>

\* int(x) of a bool
int(b) == IF b THEN 1 ELSE 0

\* execute of the INSERT with the parameters vals (three texts, the Python
\* int year, is_read as 0 or 1) on a table [rows, seq], as [rows, seq, raises].
\* sqlite3 binds the parameters in order before the statement runs: the first
\* text that cannot be encoded raises UnicodeEncodeError, then a year that
\* does not fit 64 bits raises OverflowError, and the table is left as it was
execute_insert(db, vals) ==
    IF has_surrogate(vals[1]) \/ has_surrogate(vals[2]) \/ has_surrogate(vals[3])
    THEN [rows |-> db.rows, seq |-> db.seq, raises |-> "UnicodeEncodeError"]
    ELSE IF ~fits_int64(vals[4])
    THEN [rows |-> db.rows, seq |-> db.seq, raises |-> "OverflowError"]
    ELSE CHOOSE out \in
            {[rows |-> after.rows, seq |-> after.seq, raises |-> ""] :
                after \in {insert(db, <<vals[1], vals[2], vals[3],
                                        as_int64(vals[4]), vals[5]>>)}} : TRUE

\* add_book(title, author, genre, year, is_read), as [rows, seq, raises];
\* year is a Python int
add_book(db, title, author, genre, year, is_read) ==
    execute_insert(db, <<strip(title), strip(author),
                         IF strip(genre) # <<>> THEN strip(genre) ELSE DefaultGenre,
                         year, int(is_read)>>)

\* UPDATE books SET is_read = ? WHERE id = ?
update_one(rows, is_read, id) ==
    {IF r.id = id THEN [r EXCEPT !.is_read = is_read] ELSE r : r \in rows}

\* update_read_status(rows), as [rows, seq, raises]: executemany of the
\* UPDATE, one per element of rows, in order; upd[k] is the table after the
\* first k of them.  The id of an element is a Python int: when one does not
\* fit 64 bits, binding it raises OverflowError and the connection's with
\* block rolls back the UPDATEs before it, so the table is left as it was
update_read_status(db, rows) ==
    LET upd[k \in 0..Len(rows)] ==
            IF k = 0 THEN db.rows
            ELSE update_one(upd[k - 1], int(rows[k].Prochetena),
                            as_int64(rows[k].id))
    IN IF \E k \in 1..Len(rows) : ~fits_int64(rows[k].id)
       THEN [rows |-> db.rows, seq |-> db.seq, raises |-> "OverflowError"]
       ELSE [rows |-> upd[Len(rows)], seq |-> db.seq, raises |-> ""]

\* the ORDER BY, but with the year ascending
order_before_year_asc(a, b) ==
    \/ a.year < b.year
    \/ a.year = b.year /\ binary_less(a.title, b.title)
    \/ a.year = b.year /\ a.title = b.title /\ a.id <= b.id

\* ORDER BY year DESC, title ASC; rows that tie come out in rowid order, the
\* order SQLite scans the table in
order_before(a, b) ==
    \/ a.year > b.year
    \/ a.year = b.year /\ binary_less(a.title, b.title)
    \/ a.year = b.year /\ a.title = b.title /\ a.id <= b.id

\* the rows of S in that order: the i-th is the one with i rows up to it
order_by(S) ==
    [i \in 1..Cardinality(S) |->
        CHOOSE r \in S : Cardinality({o \in S : order_before(o, r)}) = i]

\* the dict load_books builds from a row
as_dict(row) ==
    [id |-> row.id, Zaglavie |-> row.title, Avtor |-> row.author,
     Zhanr |-> row.genre, Godina |-> row.year, Prochetena |-> row.is_read # 0]

\* (title LIKE ? OR author LIKE ?) on one row, both parameters q, as
\* [raises, value]
title_or_author_like(q, row) ==
    CHOOSE out \in
        {IF t.raises # "" \/ t.value THEN t ELSE like(q, row.author) :
            t \in {like(q, row.title)}} : TRUE

\* the WHERE clause, but without the is_read = 0 clause
where_ignores_unread_only(row, search_query, unread_only) ==
    IF search_query = <<>> THEN [raises |-> "", value |-> TRUE]
    ELSE CHOOSE out \in
            {title_or_author_like(q, row) :
                q \in {<<MatchAll>> \o strip(search_query) \o <<MatchAll>>}} : TRUE

\* the WHERE clause load_books builds, on one row, as [raises, value]:
\* (title LIKE ? OR author LIKE ?) AND is_read = 0, each part only when asked
\* for, the LIKEs evaluated first
where(row, search_query, unread_only) ==
    IF search_query = <<>>
    THEN [raises |-> "", value |-> unread_only => row.is_read = 0]
    ELSE CHOOSE out \in
            {[raises |-> matched.raises,
              value |-> matched.value /\ (unread_only => row.is_read = 0)] :
                matched \in
                    {title_or_author_like(q, row) :
                        q \in {<<MatchAll>> \o strip(search_query) \o <<MatchAll>>}}} : TRUE

\* load_books(search_query, unread_only), as [raises, returns]: binding a
\* query that cannot be encoded raises; so does the first row the WHERE clause
\* raises on; else the rows selected, sorted, as dicts
\* (the selected set and the sorted rows are bound by singleton sets, so that
\* each is evaluated once)
load_books(db, search_query, unread_only) ==
    IF search_query # <<>> /\ has_surrogate(search_query)
    THEN [raises |-> "UnicodeEncodeError", returns |-> <<>>]
    ELSE IF \E r \in db.rows : where(r, search_query, unread_only).raises # ""
    THEN [raises |-> "sqlite3.OperationalError", returns |-> <<>>]
    ELSE [raises |-> "",
          returns |-> CHOOSE out \in
            {[i \in 1..Len(rows) |-> as_dict(rows[i])] :
                rows \in {order_by(S) :
                    S \in {{r \in db.rows :
                              where(r, search_query, unread_only).value}}}} : TRUE]

----------------------------------------------------------------------------
(* Python float arithmetic, as get_totals uses it: IEEE 754 binary64, round *)
(* to nearest, ties to even.  A float is [m, e]: m the significand as bits, *)
(* most significant first (53 of them, the first a 1; <<>> for 0.0), and    *)
(* the value is m * 2^e.                                                    *)

\* significand bits of a binary64
PrecisionBits == 53

Bits == Seq({0, 1})

\* the number a bit string, most significant bit first, denotes
bits_value[bits \in Bits] ==
    IF bits = <<>> THEN 0
    ELSE 2 * bits_value[SubSeq(bits, 1, Len(bits) - 1)] + bits[Len(bits)]

\* the bit string of n, no leading zero
int_bits[n \in Nat] == IF n = 0 THEN <<>> ELSE int_bits[n \div 2] \o <<n % 2>>

\* bits + 1; one bit longer when every bit was 1
increment[bits \in Bits] ==
    IF bits = <<>> THEN <<1>>
    ELSE IF bits[Len(bits)] = 0
        THEN SubSeq(bits, 1, Len(bits) - 1) \o <<1>>
        ELSE increment[SubSeq(bits, 1, Len(bits) - 1)] \o <<0>>

\* the exact value bits * 2^e (bits has a leading 1 and at least 53 bits)
\* rounded to a float
round_nearest_even(bits, e) ==
    LET keep == SubSeq(bits, 1, PrecisionBits)
        rest == SubSeq(bits, PrecisionBits + 1, Len(bits))
        guard == rest # <<>> /\ rest[1] = 1
        sticky == \E i \in 2..Len(rest) : rest[i] = 1
        up == guard /\ (sticky \/ keep[PrecisionBits] = 1)
        m == IF up THEN increment[keep] ELSE keep
    IN IF Len(m) > PrecisionBits
       THEN [m |-> SubSeq(m, 1, PrecisionBits), e |-> e + Len(rest) + 1]
       ELSE [m |-> m, e |-> e + Len(rest)]

\* st = <<rem, d, n>>: n bits of rem / d by long division, then one more bit
\* that is 1 when a remainder is left over
quotient_bits[st \in Nat \X Nat \X Nat] ==
    LET rem == st[1]
        d == st[2]
        n == st[3]
        bit == IF rem >= d THEN 1 ELSE 0
    IN IF n = 0 THEN <<IF rem # 0 THEN 1 ELSE 0>>
       ELSE <<bit>> \o quotient_bits[<<2 * (rem - bit * d), d, n - 1>>]

pow2[n \in Nat] == IF n = 0 THEN 1 ELSE 2 * pow2[n - 1]

\* a / b of two ints, 0 <= a, 0 < b: the correctly rounded quotient
true_divide(a, b) ==
    IF a = 0 THEN [m |-> <<>>, e |-> 0]
    ELSE LET j == CHOOSE j \in 0..31 :
                    /\ a < 2 * b * pow2[j]
                    /\ \A i \in 0..(j - 1) : a >= 2 * b * pow2[i]
             d == b * pow2[j]
             s == CHOOSE s \in 0..31 :
                    /\ a * pow2[s] >= d
                    /\ \A i \in 0..(s - 1) : a * pow2[i] < d
         IN round_nearest_even(quotient_bits[<<a * pow2[s], d, PrecisionBits + 1>>],
                               j - s - (PrecisionBits + 1))

\* st = <<bits, k, carry>>: the bit string of bits * k + carry, k a small int
times_small[st \in Bits \X Nat \X Nat] ==
    LET bits == st[1]
        k == st[2]
        carry == st[3]
        t == bits[Len(bits)] * k + carry
    IN IF bits = <<>> THEN int_bits[carry]
       ELSE times_small[<<SubSeq(bits, 1, Len(bits) - 1), k, t \div 2>>] \o <<t % 2>>

\* x * k for a float x and a small int k > 0 (k is exact as a float)
float_mul(x, k) ==
    IF x.m = <<>> THEN x
    ELSE round_nearest_even(times_small[<<x.m, k, 0>>], x.e)

\* int(x) of a float x >= 0: truncation
float_to_int(x) ==
    IF x.m = <<>> \/ Len(x.m) + x.e <= 0 THEN 0
    ELSE IF x.e >= 0 THEN bits_value[x.m] * pow2[x.e]
    ELSE bits_value[SubSeq(x.m, 1, Len(x.m) + x.e)]

\* SUM(is_read): the values v of the column, each times the rows holding it
sum_is_read(rows) ==
    LET weighted[V \in SUBSET Int] ==
            IF V = {} THEN 0
            ELSE LET v == CHOOSE v \in V : TRUE
                 IN v * Cardinality({r \in rows : r.is_read = v}) + weighted[V \ {v}]
    IN weighted[{r.is_read : r \in rows}]

\* the progress get_totals computes: int((read / total) * 100) if total else 0
progress_of(read, total) ==
    IF total # 0 THEN float_to_int(float_mul(true_divide(read, total), 100)) ELSE 0

\* get_totals(): SELECT COUNT(*), COALESCE(SUM(is_read), 0) FROM books
get_totals(db) ==
    CHOOSE out \in
        {<<total, read, progress_of(read, total)>> :
            total \in {Cardinality(db.rows)}, read \in {sum_is_read(db.rows)}} : TRUE

----------------------------------------------------------------------------
(* Inputs the calls are tried with *)

\* the choices of the form's genre selectbox
genre_options == <<
    <<1050, 1083, 1072, 1089, 1080, 1082, 1072>>,
    <<1056, 1086, 1084, 1072, 1085>>,
    <<1048, 1089, 1090, 1086, 1088, 1080, 1095, 1077, 1089, 1082, 1080>>,
    <<1060, 1072, 1085, 1090, 1072, 1089, 1090, 1080, 1082, 1072>>,
    <<1055, 1086, 1077, 1079, 1080, 1103>>,
    <<1041, 1080, 1086, 1075, 1088, 1072, 1092, 1080, 1103>>,
    <<1057, 1072, 1090, 1080, 1088, 1072>>,
    <<1050, 1088, 1080, 1084, 1080, 1085, 1072, 1083, 1077, 1085>>,
    <<1044, 1088, 1091, 1075>>
  >>
\* the value the form's year box is preset to
FormYear == 2024

\* " aB\t" and "Ab "
SomeTitle == <<32, 97, 66, 9>>
SomeAuthor == <<65, 98, 32>>

\* 2^63, the least Python int above the range of an INTEGER of SQLite
TwoTo63 == [sign |-> 1, digits |-> <<0, 0, 8>>]

\* direct add_book calls: a title to trim; a genre that is empty, blank, or
\* " g"; the year of a sample row, the form's default year, or 2^63; and one
\* call with a title that cannot be encoded
AddInputs ==
    [title : {SomeTitle}, author : {SomeAuthor},
     genre : {<<>>, <<9, 32>>, <<32, 103>>},
     year : {PyLong_FromLong(1951), PyLong_FromLong(FormYear), TwoTo63},
     is_read : {FALSE}]
    \cup [title : {<<97, 55296>>}, author : {SomeAuthor}, genre : {<<>>},
          year : {PyLong_FromLong(1951)}, is_read : {FALSE}]

\* form submissions of the application: an empty title, or a book of the
\* year of a sample row
FormInputs ==
    [title : {<<>>, SomeTitle}, author : {SomeAuthor}, genre : {genre_options[1]},
     year : {1951}, is_read : {FALSE}]

\* form submissions of the insert sweep: title and author empty, blank or
\* given, or a title that cannot be encoded; read or unread
SweepFormInputs ==
    [title : {<<>>, <<32>>, SomeTitle, <<97, 55296>>},
     author : {<<>>, <<9, 32>>, SomeAuthor},
     genre : {genre_options[1]}, year : {FormYear}, is_read : BOOLEAN]

\* a query of U+1F4DA whose pattern %...% has two bytes more than the limit
\* (the concatenation makes the value a tuple, which is indexed in one step)
LongQuery ==
    <<>> \o [i \in 1..(SQLITE_MAX_LIKE_PATTERN_LENGTH \div 4) |-> 128218]

\* search queries of direct load_books calls: none, "_", " Ab", the Cyrillic
\* letter te, U+0000, a query that cannot be encoded, and the long one
SearchInputs ==
    {<<>>, <<95>>, <<32, 65, 98>>, <<1090>>, <<0>>, <<1090, 56320>>, LongQuery}

\* what the sessions enter in the script's search box and toggle
ScriptSearchInputs == {<<>>, <<1090, 56320>>}
ScriptUnreadInputs == BOOLEAN

\* the rows whose checkbox the user toggles in the data editor
EditIds == {1, 2}

\* direct update_read_status calls: lists of at most two rows that name the
\* first row or an id no row has: 0 (AUTOINCREMENT starts at 1) or 2^63
UpdateIds == {PyLong_FromLong(0), PyLong_FromLong(1), TwoTo63}
UpdateRows ==
    UNION {[1..n -> [id : UpdateIds, Prochetena : BOOLEAN]] : n \in 0..2}

----------------------------------------------------------------------------
(* The calls *)

db == [rows |-> books, seq |-> sqlite_sequence]

\* the record of a call op(args): what it returned, and the exception that
\* ended it ("" when it returned)
call(op, args, out, raises) ==
    [op |-> op, args |-> args, out |-> out, raises |-> raises]

\* a session whose script is not running and lists nothing
NotRunning == [pc |-> "start", books |-> <<>>]

Init ==
    /\ table_exists = FALSE
    /\ books = {}
    /\ sqlite_sequence = 0
    /\ script = [s \in Sessions |-> NotRunning]
    /\ last = call("start", <<>>, <<>>, "")

\* session s moves to position pc, its list being listed
goto(s, pc, listed) == script' = [script EXCEPT ![s] = [pc |-> pc, books |-> listed]]

\* a run of session s's script starts (the first, or after st.rerun(), after
\* the script's end or after an exception ended the run before): the first
\* statement of init_db.
\* CREATE TABLE IF NOT EXISTS is committed when it is executed
CreateTable(s) ==
    /\ script[s].pc \in {"start", "totalled", "raised"}
    /\ table_exists' = TRUE
    /\ goto(s, "created", <<>>)
    /\ last' = call("init_db", <<"CREATE TABLE">>, <<>>, "")
    /\ UNCHANGED <<books, sqlite_sequence>>

\* the second statement of init_db: SELECT COUNT(*), and the return when the
\* count is not 0
CountRows(s) ==
    /\ script[s].pc = "created"
    /\ \E has_rows \in {Cardinality(books)} :
          /\ goto(s, IF has_rows # 0 THEN "ready" ELSE "no_rows", <<>>)
          /\ last' = call("init_db", <<"SELECT COUNT">>, has_rows, "")
    /\ UNCHANGED <<table_exists, books, sqlite_sequence>>

\* the last statement of init_db, reached with has_rows = 0: the executemany
\* of the sample rows, one transaction
SeedBooks(s) ==
    /\ script[s].pc = "no_rows"
    /\ \E after \in {executemany_insert(db, bulgarian_books)} :
          /\ books' = after.rows
          /\ sqlite_sequence' = after.seq
    /\ goto(s, "ready", <<>>)
    /\ last' = call("init_db", <<"INSERT">>, <<>>, "")
    /\ UNCHANGED table_exists

\* the rows that are not a sample row: the ones add_book inserted (no input
\* below has the title of a sample row)
added_rows(rows) ==
    {r \in rows : \A i \in DOMAIN bulgarian_books : r.title # bulgarian_books[i][1]}

\* a direct call add_book(title, author, genre, year, is_read), while the
\* table holds fewer than MaxAdds added rows
AddBook ==
    /\ table_exists
    /\ Cardinality(added_rows(books)) < MaxAdds
    /\ \E a \in AddInputs :
          \E after \in {add_book(db, a.title, a.author, a.genre, a.year, a.is_read)} :
             /\ books' = after.rows
             /\ sqlite_sequence' = after.seq
             /\ last' = call("add_book", a, <<>>, after.raises)
    /\ UNCHANGED <<table_exists, script>>

\* the form's check, but without the strip
form_rejects_empty_only(title, author) == title = <<>> \/ author = <<>>

\* the form's check: title and author are required
form_rejects(title, author) == strip(title) = <<>> \/ strip(author) = <<>>

\* session s's script handles a submitted add-book form, its filling drawn
\* from inputs, while the table holds fewer than MaxAdds added rows: the error
\* message and on with the script, or add_book, the success message and
\* st.rerun(); an exception of add_book ends the run.  The year of the form
\* is a number of 0..3000, passed as int(year)
SubmitFormFrom(s, inputs) ==
    /\ script[s].pc = "ready"
    /\ Cardinality(added_rows(books)) < MaxAdds
    /\ \E a \in inputs :
          IF form_rejects(a.title, a.author)
          THEN /\ UNCHANGED <<books, sqlite_sequence>>
               /\ goto(s, "submitted", <<>>)
               /\ last' = call("submit", a, "error", "")
          ELSE \E after \in
                    {add_book(db, a.title, a.author, a.genre,
                              PyLong_FromLong(a.year), a.is_read)} :
                  /\ books' = after.rows
                  /\ sqlite_sequence' = after.seq
                  /\ IF after.raises # ""
                     THEN /\ goto(s, "raised", <<>>)
                          /\ last' = call("submit", a, "exception", after.raises)
                     ELSE /\ goto(s, "start", <<>>)
                          /\ last' = call("submit", a, "success", "")
    /\ UNCHANGED table_exists

SubmitForm(s) == SubmitFormFrom(s, FormInputs)

\* a direct call update_read_status(rows): one transaction
UpdateReadStatus ==
    /\ table_exists
    /\ \E rows \in UpdateRows :
          \E after \in {update_read_status(db, rows)} :
             /\ books' = after.rows
             /\ last' = call("update_read_status", <<rows>>, <<>>, after.raises)
    /\ UNCHANGED <<table_exists, sqlite_sequence, script>>

\* session s's script lists the books: books = load_books(search, unread_only);
\* an exception of load_books ends the run
ListBooks(s) ==
    /\ script[s].pc \in {"ready", "submitted"}
    /\ \E search \in ScriptSearchInputs, unread_only \in ScriptUnreadInputs :
          \E listed \in {load_books(db, search, unread_only)} :
             /\ IF listed.raises # "" THEN goto(s, "raised", <<>>)
                ELSE goto(s, "listed", listed.returns)
             /\ last' = call("load_books", <<search, unread_only>>,
                             listed.returns, listed.raises)
    /\ UNCHANGED <<table_exists, books, sqlite_sequence>>

\* session s's script shows the totals: total, read, progress = get_totals()
ShowTotals(s) ==
    /\ script[s].pc = "listed"
    /\ goto(s, "totalled", script[s].books)
    /\ last' = call("get_totals", <<>>, get_totals(db), "")
    /\ UNCHANGED <<table_exists, books, sqlite_sequence>>

\* the save button of session s: the data editor applies the user's checkbox
\* edits to the list the script holds (here: none, or the checkbox of one row
\* of EditIds toggled), the edited list is written back, then st.rerun().
\* The ids of the list are the ones load_books read from the table, which
\* update_read_status takes as Python ints
SaveButton(s) ==
    /\ script[s].pc = "totalled"
    /\ \E listed \in {script[s].books} :
          \E edits \in {{}} \cup {{i} : i \in {k \in DOMAIN listed : listed[k].id \in EditIds}} :
             \E edited_books \in
                   {[i \in DOMAIN listed |->
                        IF i \in edits
                        THEN [listed[i] EXCEPT !.Prochetena = ~@]
                        ELSE listed[i]]} :
                \E after \in
                      {update_read_status(db,
                          [i \in DOMAIN edited_books |->
                              [edited_books[i] EXCEPT !.id = PyLong_FromLong(@)]])} :
                   /\ books' = after.rows
                   /\ last' = call("save", <<edited_books>>, "success", "")
    /\ goto(s, "start", <<>>)
    /\ UNCHANGED <<table_exists, sqlite_sequence>>

\* a direct call load_books(search_query, unread_only)
LoadBooks ==
    /\ table_exists
    /\ \E search \in SearchInputs, unread_only \in BOOLEAN :
          \E result \in {load_books(db, search, unread_only)} :
             last' = call("load_books", <<search, unread_only>>,
                          result.returns, result.raises)
    /\ UNCHANGED <<table_exists, books, sqlite_sequence, script>>

\* a direct call get_totals()
GetTotals ==
    /\ table_exists
    /\ last' = call("get_totals", <<>>, get_totals(db), "")
    /\ UNCHANGED <<table_exists, books, sqlite_sequence, script>>

\* The application: the sessions' runs of the script
Next ==
    \E s \in Sessions :
        \/ CreateTable(s)
        \/ CountRows(s)
        \/ SeedBooks(s)
        \/ SubmitForm(s)
        \/ ListBooks(s)
        \/ ShowTotals(s)
        \/ SaveButton(s)

Spec == Init /\ [][Next]_vars

\* The insert sweep: init_db, direct add_book calls and the form over wider
\* inputs
SweepSubmitForm(s) == SubmitFormFrom(s, SweepFormInputs)

NextAdd ==
    \/ \E s \in Sessions :
          \/ CreateTable(s)
          \/ CountRows(s)
          \/ SeedBooks(s)
          \/ SweepSubmitForm(s)
    \/ AddBook

SpecAdd == Init /\ [][NextAdd]_vars

\* The update sweep: init_db and direct update_read_status calls
NextUpdate ==
    \/ \E s \in Sessions :
          \/ CreateTable(s)
          \/ CountRows(s)
          \/ SeedBooks(s)
    \/ UpdateReadStatus

SpecUpdate == Init /\ [][NextUpdate]_vars

\* the table init_db on a fresh file and then adds calls of add_book leave:
\* the first adds a book of the year of a sample row
seeded_and_added(adds) ==
    LET added[k \in 0..adds] ==
            IF k = 0 THEN executemany_insert([rows |-> {}, seq |-> 0], bulgarian_books)
            ELSE CHOOSE after \in
                    {add_book(before, SomeTitle, SomeAuthor, genre_options[1],
                              PyLong_FromLong(IF k = 1 THEN 1951 ELSE FormYear),
                              FALSE) :
                        before \in {added[k - 1]}} : TRUE
    IN added[adds]

\* The list sweep: load_books, over wider inputs, on the tables of the sample
\* rows and added rows, up to MaxBooks rows in all, any of them read
InitList ==
    /\ table_exists = TRUE
    /\ \E n \in Len(bulgarian_books)..MaxBooks :
          \E table \in {seeded_and_added(n - Len(bulgarian_books))} :
             \E read \in SUBSET (1..n) :
                /\ books = {[row EXCEPT !.is_read = int(row.id \in read)] :
                               row \in table.rows}
                /\ sqlite_sequence = table.seq
    /\ script = [s \in Sessions |-> NotRunning]
    /\ last = call("start", <<>>, <<>>, "")

NextList == LoadBooks

SpecList == InitList /\ [][NextList]_vars

\* The get_totals sweep: get_totals on every table of the sample rows and
\* added rows, up to MaxTotal rows in all, whose first r rows are read
SweepRow(i) ==
    [id |-> i, title |-> strip(SomeTitle), author |-> strip(SomeAuthor),
     genre |-> DefaultGenre, year |-> FormYear, is_read |-> 0]

InitTotals ==
    /\ table_exists = TRUE
    /\ \E n \in Len(bulgarian_books)..MaxTotal, r \in 0..MaxTotal :
          /\ r <= n
          /\ books = {[row EXCEPT !.is_read = int(row.id <= r)] :
                        row \in seeded_and_added(0).rows
                                \cup {SweepRow(i) : i \in (Len(bulgarian_books) + 1)..n}}
          /\ sqlite_sequence = n
    /\ script = [s \in Sessions |-> NotRunning]
    /\ last = call("start", <<>>, <<>>, "")

NextTotals == GetTotals

SpecTotals == InitTotals /\ [][NextTotals]_vars

----------------------------------------------------------------------------
(* What the claims are stated with *)

Ids(rows) == {r.id : r \in rows}

\* the pairs of an update_read_status call: the list a direct call was given,
\* or the list the save button wrote back, its ids as the Python ints passed
InputRows(c) ==
    IF c.op = "save"
    THEN [i \in DOMAIN c.args[1] |->
             [id |-> PyLong_FromLong(c.args[1][i].id),
              Prochetena |-> c.args[1][i].Prochetena]]
    ELSE c.args[1]

\* TRUE when the pair p names the record of the integer id: an id that does
\* not fit 64 bits is the id of no record
Names(p, id) == fits_int64(p.id) /\ as_int64(p.id) = id

\* TRUE when the last pair of rows that names id gives flag
LastGiven(rows, id, flag) ==
    \E i \in DOMAIN rows :
        /\ Names(rows[i], id)
        /\ rows[i].Prochetena = flag
        /\ \A k \in DOMAIN rows : k > i => ~Names(rows[k], id)

\* the year given to an add: a Python int in a direct call (one that fits 64
\* bits, when a row was added), the form's number in a submission
GivenYear(c) == IF c.op = "add_book" THEN as_int64(c.args.year) ELSE c.args.year

SameButIsRead(r, q) ==
    /\ r.id = q.id
    /\ r.title = q.title
    /\ r.author = q.author
    /\ r.genre = q.genre
    /\ r.year = q.year

IsBlank(s) == \A i \in 1..Len(s) : s[i] \in WhitespaceChars

\* t is s without its leading and trailing whitespace
IsTrimOf(t, s) ==
    /\ t # <<>> => t[1] \notin WhitespaceChars /\ t[Len(t)] \notin WhitespaceChars
    /\ \E lead \in 0..Len(s) :
          /\ lead + Len(t) <= Len(s)
          /\ \A i \in 1..Len(t) : t[i] = s[lead + i]
          /\ \A i \in 1..Len(s) : (i <= lead \/ i > lead + Len(t)) => s[i] \in WhitespaceChars

\* case folding of the Latin and Cyrillic letters
Fold(c) ==
    IF c \in 65..90 \/ c \in 1040..1071 THEN c + 32
    ELSE IF c \in 1024..1039 THEN c + 80
    ELSE c

\* needle occurs in hay, letter case aside
ContainsFolded(needle, hay) ==
    \E k \in 0..(Len(hay) - Len(needle)) :
        \A i \in 1..Len(needle) : Fold(hay[k + i]) = Fold(needle[i])

\* a <= b, text compared code point by code point
LexLeq(a, b) ==
    \/ a = b
    \/ \E k \in 1..Len(b) :
          /\ k - 1 <= Len(a)
          /\ \A i \in 1..(k - 1) : a[i] = b[i]
          /\ (k > Len(a) \/ a[k] < b[k])

\* the five sample records, with the ids a fresh table gives them
SampleSet ==
    {[id |-> i, title |-> bulgarian_books[i][1], author |-> bulgarian_books[i][2],
      genre |-> bulgarian_books[i][3], year |-> bulgarian_books[i][4],
      is_read |-> bulgarian_books[i][5]] : i \in 1..5}

----------------------------------------------------------------------------
(* The claims *)

\* C1: update_read_status, called directly or by the save button (with the
\* list the session holds, which other sessions' writes may have made
\* stale), changes only is_read of the records its input names: afterwards
\* the set of ids is the same, every record keeps id, title, author, genre
\* and year, a record the input names has the is_read the input gives it (the
\* last one, when the input names it twice), and a record the input does not
\* name is unchanged.
C1_UpdateChangesOnlyIsRead ==
    [][last'.op \in {"update_read_status", "save"} =>
        /\ Ids(books') = Ids(books)
        /\ Cardinality(books') = Cardinality(books)
        /\ \A r \in books : \E q \in books' :
              /\ SameButIsRead(r, q)
              /\ \A i \in DOMAIN InputRows(last') :
                    Names(InputRows(last')[i], r.id) =>
                        LastGiven(InputRows(last'), r.id, q.is_read = 1)
              /\ (\A i \in DOMAIN InputRows(last') :
                        ~Names(InputRows(last')[i], r.id))
                    => q = r]_vars

\* C2: a step of init_db on an empty table leaves the table empty or leaves
\* exactly the five sample records, two of them read, and its INSERT leaves
\* the latter; a step of init_db on a table that holds a record changes
\* nothing: no init_db ever adds, removes or alters a record of a table that
\* holds one.
C2_InitSeedsOnceOnly ==
    [][last'.op = "init_db" =>
        /\ books = {} =>
              /\ books' \in {{}, SampleSet}
              /\ last'.args = <<"INSERT">> => books' = SampleSet
              /\ books' # {} =>
                    /\ Cardinality(books') = 5
                    /\ Cardinality({r \in books' : r.is_read = 1}) = 2
        /\ books # {} => books' = books]_vars

\* C3: get_totals returns (total, read, progress) with read <= total, and
\* progress = floor(read * 100 / total) when total > 0, else 0.
C3_TotalsAreExact ==
    last.op = "get_totals" =>
        /\ last.out[1] = Cardinality(books)
        /\ last.out[2] = Cardinality({r \in books : r.is_read # 0})
        /\ last.out[2] <= last.out[1]
        /\ last.out[3] = IF last.out[1] > 0
                         THEN (last.out[2] * 100) \div last.out[1]
                         ELSE 0

\* C4: with a non-empty search query, load_books returns no record whose
\* title and author both lack the trimmed query as a substring, letter case
\* aside.
C4_SearchReturnsOnlyMatches ==
    (last.op = "load_books" /\ last.args[1] # <<>>) =>
        \A i \in DOMAIN last.out :
            \/ ContainsFolded(strip(last.args[1]), last.out[i].Zaglavie)
            \/ ContainsFolded(strip(last.args[1]), last.out[i].Avtor)

\* C5: ids are unique; a step never removes a record or changes the id of
\* one (the record of an id keeps its title, author, genre and year); and a
\* record a step adds has an id larger than every id assigned before.
C5_IdsUniqueStableGrowing ==
    [][/\ \A r \in books', q \in books' : r.id = q.id => r = q
       /\ \A r \in books : \E q \in books' : SameButIsRead(r, q)
       /\ \A q \in books' :
             q.id \notin Ids(books) =>
                /\ \A r \in books : q.id > r.id
                /\ q.id > sqlite_sequence]_vars

\* a record was added after the five sample records, and got id 6
C5_Witness ==
    /\ last.op \in {"add_book", "submit"}
    /\ Cardinality(books) = 6
    /\ Ids(books) = 1..6

\* C6: a direct update_read_status call that names an id no record has
\* signals no error, creates no record, and leaves the table as the same
\* call without those pairs leaves it: a record keeps every field but
\* is_read, gets the is_read of the last pair that names it, and is
\* unchanged when no pair names it.
C6_UnknownIdIsNoOp ==
    [][(/\ last'.op = "update_read_status"
        /\ \E i \in DOMAIN last'.args[1] :
              \A r \in books : ~Names(last'.args[1][i], r.id)) =>
        /\ last'.raises = ""
        /\ last'.out = <<>>
        /\ Ids(books') = Ids(books)
        /\ Cardinality(books') = Cardinality(books)
        /\ \A r \in books : \E q \in books' :
              /\ SameButIsRead(r, q)
              /\ q.is_read # r.is_read =>
                    LastGiven(last'.args[1], r.id, q.is_read = 1)
              /\ \A f \in BOOLEAN :
                    LastGiven(last'.args[1], r.id, f) => q.is_read = int(f)]_vars

\* C7: add_book (called directly or by the form) adds exactly one record,
\* even when a record with the same content exists; its title, author and
\* genre are the inputs without leading and trailing whitespace, except that
\* a blank genre becomes the default genre, never the empty text; year and
\* is_read are the ones given.
C7_AddStoresTrimmedFields ==
    [][(last'.op = "add_book" \/ (last'.op = "submit" /\ last'.out = "success")) =>
        /\ Cardinality(books') = Cardinality(books) + 1
        /\ books \subseteq books'
        /\ \A r \in books' \ books :
              /\ IsTrimOf(r.title, last'.args.title)
              /\ IsTrimOf(r.author, last'.args.author)
              /\ IF IsBlank(last'.args.genre)
                 THEN r.genre = DefaultGenre
                 ELSE IsTrimOf(r.genre, last'.args.genre)
              /\ r.genre # <<>>
              /\ r.year = GivenYear(last')
              /\ r.is_read = (IF last'.args.is_read THEN 1 ELSE 0)]_vars

\* C8: load_books with unread_only returns only records whose is_read is
\* false, whatever the search query (a call that raises returns no record).
C8_UnreadOnlyReturnsUnread ==
    (last.op = "load_books" /\ last.args[2]) =>
        \A i \in DOMAIN last.out :
            /\ ~last.out[i].Prochetena
            /\ \E r \in books : r.id = last.out[i].id /\ r.is_read = 0

\* load_books with a search query and unread_only returned a record, and left
\* out a read record that the query matches
C8_Witness ==
    /\ last.op = "load_books"
    /\ last.args = <<<<1090>>, TRUE>>
    /\ Len(last.out) >= 1
    /\ \E r \in books :
          /\ r.is_read = 1
          /\ ContainsFolded(<<1090>>, r.title)
          /\ \A i \in DOMAIN last.out : last.out[i].id # r.id

\* C9: a form submitted with a title or an author that is empty or blank is
\* answered with the error message, and the table is left as it was.
C9_FormRejectsBlankTitleOrAuthor ==
    [][(/\ last'.op = "submit"
        /\ IsBlank(last'.args.title) \/ IsBlank(last'.args.author)) =>
        /\ last'.out = "error"
        /\ books' = books
        /\ sqlite_sequence' = sqlite_sequence]_vars

\* the form was submitted with a title of one space and a given author, and
\* was answered with the error message
C9_Witness ==
    /\ last.op = "submit"
    /\ last.args.title = <<32>>
    /\ last.args.author = SomeAuthor
    /\ last.out = "error"

\* C10: load_books returns its records by year descending, then title
\* ascending: of two returned records the earlier has the larger year, or the
\* same year and a title that is not the larger (a call that raises returns
\* no record).
C10_ListIsOrdered ==
    last.op = "load_books" =>
        \A i \in DOMAIN last.out, k \in DOMAIN last.out :
            i < k =>
                \/ last.out[i].Godina > last.out[k].Godina
                \/ /\ last.out[i].Godina = last.out[k].Godina
                   /\ LexLeq(last.out[i].Zaglavie, last.out[k].Zaglavie)

\* a list of all six records: the added one, of the same year as the second
\* sample record, comes right before it, and the order is not the id order
C10_Witness ==
    /\ last.op = "load_books"
    /\ Len(last.out) = 6
    /\ \E i \in 1..5 :
          /\ last.out[i].id = 6
          /\ last.out[i + 1].id = 2
          /\ last.out[i].Godina = last.out[i + 1].Godina
          /\ last.out[i].Zaglavie # last.out[i + 1].Zaglavie
    /\ last.out[1].id = 5

====
